---- MODULE Spec2Model ----
(***************************************************************************)
(* A model of the two-tier byte buffer of go-disk-buffer (buffer.go).      *)
(* The Buffer struct is the state; every exported method is one action.    *)
(* The temporary file, the os.File handles and the sio streams are the     *)
(* collaborators the methods call.                                         *)
(***************************************************************************)
EXTENDS Integers, Sequences, FiniteSets, TLC

\* ------------------------------------------------------------------ bounds
MaxThreshold == 2      \* largest maxInMemorySize a buffer is constructed with
MaxSize      == 3      \* cap on b.size (bytes ever accepted by Write)
MaxWrite     == 2      \* longest slice passed to one Write
MaxRead      == 2      \* longest slice passed to Read / ReadAt / Next
ChunkSize    == 2      \* WriteTo's chunk; 512 in the source, scaled so that a drain takes several Reads

\* The keys rand.Read can produce. Keys are only compared with each other,
\* so two of them stand for "the same key again" and "another key".
Keys == {1, 2}

Min(a, b) == IF a < b THEN a ELSE b
Max(a, b) == IF a > b THEN a ELSE b
Take(s, n) == SubSeq(s, 1, Min(n, Len(s)))
Drop(s, n) == SubSeq(s, n + 1, Len(s))
\* the element of a one-element set: The({e(x) : x \in {v}}) is "e of v",
\* with v computed once
The(S) == CHOOSE x \in S : TRUE

\* ------------------------------------------------------------------- state
VARIABLES
    maxInMemorySize,   \* b.maxInMemorySize
    writingFinished,   \* b.writingFinished
    readingFinished,   \* b.readingFinished
    size,              \* b.size
    offset,            \* b.offset
    encrypt,           \* b.encrypt
    encryptionKey,     \* b.encryptionKey (0 is the zero key of a new Buffer)
    buff,              \* b.buff: the unread bytes of the bytes.Buffer
    writeFile,         \* b.writeFile
    readFile,          \* b.readFile
    useFile,           \* b.useFile
    filename,          \* b.filename ("" or the name of the temp file)
    tempFile,          \* the temp file on disk
    ret,               \* arguments and results of the last call
    written,           \* bytes accepted by Write since construction / Reset
    out                \* bytes returned by Read since construction / Reset

bufferVars == <<maxInMemorySize, writingFinished, readingFinished, size, offset,
                encrypt, encryptionKey, buff, writeFile, readFile, useFile,
                filename>>
vars == <<maxInMemorySize, writingFinished, readingFinished, size, offset,
          encrypt, encryptionKey, buff, writeFile, readFile, useFile,
          filename, tempFile, ret, written, out>>

\* ------------------------------------------------------------ collaborators
\* io.WriteCloser / io.ReadCloser values; a nil interface is NilHandle.
NilHandle == [kind |-> "nil", key |-> 0, pos |-> 0, pending |-> <<>>]
\* *os.File as returned by ioutil.TempFile (write side) or os.Open (read side)
OsFile == [kind |-> "file", key |-> 0, pos |-> 0, pending |-> <<>>]
\* the stream sio.EncryptWriter returns: plaintext is held back until Close
SioEncryptWriter(k) == [kind |-> "sioWriter", key |-> k, pos |-> 0, pending |-> <<>>]
\* sioDecryptReaderWrapper: forward-only, no ReadAt method
SioDecryptReaderWrapper(k) == [kind |-> "sioReader", key |-> k, pos |-> 0, pending |-> <<>>]
\* sioDecryptReaderAtWrapper: ReadAt, and Read through its own offset
SioDecryptReaderAtWrapper(k) == [kind |-> "sioReaderAt", key |-> k, pos |-> 0, pending |-> <<>>]

\* The temp file: key = 0 for plaintext, k for a stream sealed under key k.
NoFile == [exists |-> FALSE, data |-> <<>>, key |-> 0]

\* the cipher, reduced to a byte-wise shift
CipherModulus == MaxSize + Cardinality(Keys) + 1
sioEncrypt(b, k) == (b + k) % CipherModulus
sioDecrypt(c, k) == (c + CipherModulus - k) % CipherModulus
EncryptSeq(s, k) == [i \in 1..Len(s) |-> sioEncrypt(s[i], k)]
DecryptSeq(s, k) == [i \in 1..Len(s) |-> sioDecrypt(s[i], k)]

\* ioutil.TempFile: a new, empty file
TempFile == [exists |-> TRUE, data |-> <<>>, key |-> 0]

\* writeFile.Write(data) on the write handle h over file f: [h, f, n]
HandleWrite(h, f, data) ==
    IF h.kind = "sioWriter"
    THEN [h |-> [h EXCEPT !.pending = h.pending \o data], f |-> f, n |-> Len(data)]
    ELSE [h |-> h, f |-> [f EXCEPT !.data = f.data \o data], n |-> Len(data)]

\* writeFile.Close(): the file after the write handle h is closed
HandleCloseWrite(h, f) ==
    IF h.kind = "sioWriter"
    THEN [f EXCEPT !.data = f.data \o EncryptSeq(h.pending, h.key), !.key = h.key]
    ELSE f

\* what a read handle h sees of file f: the plaintext, or a failure
Authentic(h, f) == h.kind = "file" \/ h.key = f.key
Plain(h, f) == IF h.kind = "file" THEN f.data ELSE DecryptSeq(f.data, h.key)

\* readFile.Read(p) with len(p) = len: [h, n, data, err]
HandleRead(h, f, len) ==
    IF ~Authentic(h, f)
    THEN [h |-> h, n |-> 0, data |-> <<>>, err |-> "decrypt"]
    ELSE LET avail == Len(f.data) - h.pos
             n     == Min(len, avail)
             d     == SubSeq(Plain(h, f), h.pos + 1, h.pos + n)
             short == IF h.kind = "sioReaderAt" THEN n < len ELSE n = 0 /\ len > 0
         IN  [h |-> [h EXCEPT !.pos = h.pos + n], n |-> n, data |-> d,
              err |-> IF short THEN "EOF" ELSE "nil"]

\* readerAt.ReadAt(p, off) with len(p) = len: [n, data, err]
HandleReadAt(h, f, len, off) ==
    IF ~Authentic(h, f)
    THEN [n |-> 0, data |-> <<>>, err |-> "decrypt"]
    ELSE LET n == Max(0, Min(len, Len(f.data) - off))
         IN  [n |-> n, data |-> SubSeq(Plain(h, f), off + 1, off + n),
              err |-> IF n < len THEN "EOF" ELSE "nil"]

\* os.Open(b.filename)
CanOpen(name, f) == name # "" /\ f.exists

\* a buffer read that reports the requested length as read
BuffRead_ReportsLen(b, len) ==
    IF b = <<>>
    THEN [n |-> 0, data |-> <<>>, rest |-> <<>>,
          err |-> IF len = 0 THEN "nil" ELSE "EOF"]
    ELSE [n |-> len, data |-> Take(b, len), rest |-> Drop(b, len), err |-> "nil"]

\* bytes.Buffer.Read(p) with len(p) = len on unread bytes b: [n, data, rest, err]
BuffRead(b, len) ==
    IF b = <<>>
    THEN [n |-> 0, data |-> <<>>, rest |-> <<>>,
          err |-> IF len = 0 THEN "nil" ELSE "EOF"]
    ELSE [n |-> Min(len, Len(b)), data |-> Take(b, len), rest |-> Drop(b, len),
          err |-> "nil"]

\* Buffer.Len
BufferLen == size - offset

\* The data passed to Write. No method looks at the value of a byte, so the
\* callers write the bytes size, size+1, ...: every byte ever accepted is
\* distinct, and a byte returned from the wrong place is told apart.
Payload(k) == [i \in 1..k |-> size + i - 1]

\* -------------------------------------------------------------------- Init
NoCall == [op |-> "none", len |-> 0, off |-> 0, n |-> 0, data |-> <<>>, err |-> "nil"]

\* NewBufferWithMaxMemorySize(maxInMemorySize)
Init ==
    /\ maxInMemorySize \in 0..MaxThreshold
    /\ writingFinished = FALSE
    /\ readingFinished = FALSE
    /\ size = 0
    /\ offset = 0
    /\ encrypt = FALSE
    /\ encryptionKey = 0
    /\ buff = <<>>
    /\ writeFile = NilHandle
    /\ readFile = NilHandle
    /\ useFile = FALSE
    /\ filename = ""
    /\ tempFile = NoFile
    /\ ret = NoCall
    /\ written = <<>>
    /\ out = <<>>

\* ----------------------------------------------------------------- actions
Result(op, len, off, n, data, err) ==
    [op |-> op, len |-> len, off |-> off, n |-> n, data |-> data, err |-> err]

\* Buffer.EnableEncryption; rand.Read yields any key
EnableEncryption(key) ==
    /\ encrypt' = TRUE
    /\ encryptionKey' = key
    /\ ret' = Result("EnableEncryption", 0, 0, 0, <<>>, "nil")
    /\ UNCHANGED <<maxInMemorySize, writingFinished, readingFinished, size, offset,
                   buff, writeFile, readFile, useFile, filename, tempFile,
                   written, out>>

\* a Write gate that tests the wrong flag
WriteRejected_WhenExhausted == readingFinished

\* Write's gate: "if b.writingFinished { return 0, ErrBufferFinished }"
WriteRejected == writingFinished

\* a tier test that is off by one
FitsInMemory_Strict(data) == Len(buff) + Len(data) < maxInMemorySize

\* Write's tier test: "b.buff.Len()+len(data) <= b.maxInMemorySize"
FitsInMemory(data) == Len(buff) + Len(data) <= maxInMemorySize

\* a bound that forgets what the buffer already holds
WriteBound_Threshold == maxInMemorySize

\* Write's overflow: "bound := b.maxInMemorySize - b.buff.Len()", the number
\* of leading bytes that still go into the buffer
WriteBound == maxInMemorySize - Len(buff)

\* Buffer.Write(data)
Write(data) ==
    /\ UNCHANGED <<maxInMemorySize, writingFinished, readingFinished, offset,
                   encrypt, encryptionKey, readFile, out>>
    /\ IF WriteRejected
       THEN /\ ret' = Result("Write", Len(data), 0, 0, data, "ErrBufferFinished")
            /\ UNCHANGED <<size, buff, writeFile, useFile, filename, tempFile, written>>
       ELSE /\ size + Len(data) <= MaxSize
            /\ IF ~useFile /\ FitsInMemory(data)
               THEN \* just write data into the buffer
                    /\ buff' = buff \o data
                    /\ size' = size + Len(data)
                    /\ written' = written \o data
                    /\ ret' = Result("Write", Len(data), 0, Len(data), data, "nil")
                    /\ UNCHANGED <<writeFile, useFile, filename, tempFile>>
               ELSE IF ~useFile
               THEN \* fill the buffer, create the temp file, write the rest
                    LET bound == WriteBound
                        rest  == Drop(data, bound)
                        h     == IF encrypt THEN SioEncryptWriter(encryptionKey)
                                 ELSE OsFile
                        w     == HandleWrite(h, TempFile, rest)
                    IN  /\ buff' = buff \o Take(data, bound)
                        /\ useFile' = TRUE
                        /\ writeFile' = w.h
                        /\ tempFile' = w.f
                        /\ filename' = "tmp"
                        /\ size' = size + bound + w.n
                        /\ written' = written \o data
                        /\ ret' = Result("Write", Len(data), 0, bound + w.n, data, "nil")
               ELSE IF writeFile = NilHandle
               THEN \* b.writeFile.Write on a nil interface
                    /\ ret' = Result("Write", Len(data), 0, 0, data, "panic")
                    /\ UNCHANGED <<size, buff, writeFile, useFile, filename,
                                   tempFile, written>>
               ELSE \* write data into the file
                    LET w == HandleWrite(writeFile, tempFile, data)
                    IN  /\ writeFile' = w.h
                        /\ tempFile' = w.f
                        /\ size' = size + w.n
                        /\ written' = written \o data
                        /\ ret' = Result("Write", Len(data), 0, w.n, data, "nil")
                        /\ UNCHANGED <<buff, useFile, filename>>

\* a "finish writing" that closes the write file and keeps the field
WriteFileAfterFinish_Kept(finished, h) == h

\* b.writeFile after "finish writing", from the flag and the field before:
\* nil once the write phase is closed ("b.writeFile.Close();
\* b.writeFile = nil" when it was open)
WriteFileAfterFinish(finished, h) == IF finished THEN h ELSE NilHandle

\* the file after "finish writing": b.writeFile.Close() when it is open
FinishWriting(h, f) == IF h # NilHandle THEN HandleCloseWrite(h, f) ELSE f

\* a readFromFile that opens the file on every call
readFromFile_Reopen(h, f, len) ==
    IF ~CanOpen(filename, f)
    THEN [h |-> h, n |-> 0, data |-> <<>>, err |-> "open"]
    ELSE HandleRead(IF encrypt THEN SioDecryptReaderWrapper(encryptionKey)
                    ELSE OsFile, f, len)

\* Buffer.readFromFile(data) with len(data) = len, over file f: [h, n, data, err]
readFromFile(h, f, len) ==
    IF h = NilHandle
    THEN IF ~CanOpen(filename, f)
         THEN [h |-> h, n |-> 0, data |-> <<>>, err |-> "open"]
         ELSE HandleRead(IF encrypt THEN SioDecryptReaderWrapper(encryptionKey)
                         ELSE OsFile, f, len)
    ELSE HandleRead(h, f, len)

\* the body of Buffer.Read between the defers, on the unread buffer bytes b,
\* the read handle h and the file f: [h, n, data, err, buff]
ReadBody(b, h, f, len) ==
    IF b # <<>>
    THEN The({ IF m.err # "nil" \/ m.n = len \/ ~useFile
               THEN [h |-> h, n |-> m.n, data |-> m.data, err |-> m.err,
                     buff |-> m.rest]
               ELSE The({ [h |-> r.h, n |-> m.n + r.n, data |-> m.data \o r.data,
                           err |-> r.err, buff |-> m.rest]
                          : r \in {readFromFile(h, f, len - m.n)} })
               : m \in {BuffRead(b, len)} })
    ELSE IF useFile
    THEN The({ [h |-> r.h, n |-> r.n, data |-> r.data, err |-> r.err, buff |-> b]
               : r \in {readFromFile(h, f, len)} })
    ELSE [h |-> h, n |-> 0, data |-> <<>>, err |-> "EOF", buff |-> b]

ReadingFinished_OnlyEmpty(n, len) == n = 0 /\ len > 0

\* a test that is off by one: a read that fills the slice finishes too
ReadingFinished_Inclusive(n, len) == n <= len

\* Read's deferred function: a read of fewer bytes than requested finishes
\* the reading
ReadingFinished(n, len) == n < len

FileDone_NilTestInverted(fin, h) == fin /\ h = NilHandle

\* Read's deferred function: when the reading is finished and a read file is
\* open, the file is closed and removed and the filename cleared
FileDone(fin, h) == fin /\ h # NilHandle

\* The fields Read works on, with the results of the last Read (none yet)
ReadState ==
    [n |-> 0, data |-> <<>>, err |-> "nil",
     writingFinished |-> writingFinished, readingFinished |-> readingFinished,
     offset |-> offset, buff |-> buff, writeFile |-> writeFile,
     readFile |-> readFile, filename |-> filename, tempFile |-> tempFile]

\* Buffer.Read(data) with len(data) = len on the fields s: what it returns
\* and the fields it assigns
ReadOn(s, len) ==
    IF s.readingFinished
    THEN [s EXCEPT !.n = 0, !.data = <<>>, !.err = "EOF"]
    ELSE The({
         LET r    == fr[2]
             f    == fr[1]
             \* the deferred function: n < len(data) finishes the reading,
             \* and an open read file is then closed and removed
             fin  == ReadingFinished(r.n, len)
             done == FileDone(fin, r.h)
         IN  [n |-> r.n, data |-> r.data, err |-> r.err,
              writingFinished |-> TRUE, readingFinished |-> fin,
              offset |-> s.offset + r.n, buff |-> r.buff,
              writeFile |-> WriteFileAfterFinish(s.writingFinished, s.writeFile),
              readFile |-> IF done THEN NilHandle ELSE r.h,
              filename |-> IF done THEN "" ELSE s.filename,
              tempFile |-> IF done /\ s.filename # ""
                           THEN [f EXCEPT !.exists = FALSE] ELSE f]
         : fr \in { <<f0, ReadBody(s.buff, s.readFile, f0, len)>>
                    : f0 \in {IF s.writingFinished THEN s.tempFile
                             ELSE FinishWriting(s.writeFile, s.tempFile)} } })

\* Buffer.Read(data) with len(data) = len, as a function of the state
ReadOutcome(len) == The({ ReadOn(s, len) : s \in {ReadState} })

\* Buffer.Read(data): the call
Read(len) ==
    \E o \in {ReadOutcome(len)} :
        /\ writingFinished' = o.writingFinished
        /\ readingFinished' = o.readingFinished
        /\ offset' = o.offset
        /\ buff' = o.buff
        /\ writeFile' = o.writeFile
        /\ readFile' = o.readFile
        /\ filename' = o.filename
        /\ tempFile' = o.tempFile
        /\ out' = out \o o.data
        /\ ret' = Result("Read", len, 0, o.n, o.data, o.err)
        /\ UNCHANGED <<maxInMemorySize, size, encrypt, encryptionKey, useFile, written>>

\* an input validation that tests the length first
ReadAtCheck_LenFirst(len, off) ==
    IF len = 0 THEN "nil"
    ELSE IF off < 0 THEN "negative offset"
    ELSE IF off >= size THEN "EOF"
    ELSE "read"

\* ReadAt's input validation, in the order of the code
ReadAtCheck(len, off) ==
    IF off < 0 THEN "negative offset"
    ELSE IF len = 0 THEN "nil"
    ELSE IF off >= size THEN "EOF"
    ELSE "read"

\* ReadAt, case 1: how many bytes of the request the buffer serves
BufferBytesToRead(bufferSize, len, off) ==
    IF off < bufferSize THEN Min(bufferSize - off, len) ELSE 0

\* a file offset that forgets the bytes held in memory
FileOffset_Absolute(off, bufferSize) == off

\* ReadAt, case 2: "fileOffset := off - int64(bufferSize)"
FileOffset(off, bufferSize) == off - bufferSize

\* a ReadAt that never signals the end of data
ShortReadErr_Never(bytesRead, totalBytesToRead) == "nil"

\* ReadAt's last lines: io.EOF when fewer bytes were read than requested
ShortReadErr(bytesRead, totalBytesToRead) ==
    IF bytesRead < totalBytesToRead THEN "EOF" ELSE "nil"

\* ReadAt, case 2: the handle the file is read through, b.readFile once set
ReadAtHandle ==
    IF readFile # NilHandle THEN readFile
    ELSE IF encrypt THEN SioDecryptReaderAtWrapper(encryptionKey)
    ELSE OsFile

\* ReadAt after its checks, with the write phase closed: case 1 (the buffer)
\* and case 2 (the file f, read through `opened`, which is the read handle rf
\* when that is set): [n, data, err, readFile]
ReadAtTiers(rf, f, opened, len, off) ==
    LET bufferSize == Len(buff)
        \* case 1: the part of the request inside the buffer
        bufferBytesToRead == BufferBytesToRead(bufferSize, len, off)
        memData    == SubSeq(buff, off + 1, off + bufferBytesToRead)
        off2       == off + bufferBytesToRead
        rest       == len - bufferBytesToRead
        \* case 2: the rest comes from the file
        needFile   == rest > 0 /\ useFile
        openFails  == rf = NilHandle /\ ~CanOpen(filename, f)
        isReaderAt == opened.kind \in {"file", "sioReaderAt"}
        done(n, data, err, h) == [n |-> n, data |-> data, err |-> err, readFile |-> h]
    IN  IF ~needFile
        THEN done(bufferBytesToRead, memData,
                  ShortReadErr(bufferBytesToRead, len), rf)
        ELSE IF openFails
        THEN done(bufferBytesToRead, memData, "open", rf)
        ELSE IF ~isReaderAt
        THEN done(bufferBytesToRead, memData, "not ReaderAt", opened)
        ELSE The({ done(bufferBytesToRead + r.n, memData \o r.data,
                        IF r.err \notin {"nil", "EOF"} THEN r.err
                        ELSE ShortReadErr(bufferBytesToRead + r.n, len), opened)
                   : r \in {HandleReadAt(opened, f, rest,
                                         FileOffset(off2, bufferSize))} })

\* Buffer.ReadAt(data, off) with len(data) = len, as a function of the state
ReadAtOutcome(len, off) ==
    IF ReadAtCheck(len, off) # "read"
    THEN [n |-> 0, data |-> <<>>, err |-> ReadAtCheck(len, off),
          writingFinished |-> writingFinished, writeFile |-> writeFile,
          readFile |-> readFile, tempFile |-> tempFile]
    ELSE The({
         [n |-> t[2].n, data |-> t[2].data, err |-> t[2].err,
          writingFinished |-> TRUE,
          writeFile |-> WriteFileAfterFinish(writingFinished, writeFile),
          readFile |-> t[2].readFile, tempFile |-> t[1]]
         : t \in { <<c[1], ReadAtTiers(c[2], c[1], c[3], len, off)>>
                   : c \in { <<IF writingFinished THEN tempFile
                               ELSE FinishWriting(writeFile, tempFile),
                               readFile, ReadAtHandle>> } } })

\* a ReadAt that moves the sequential cursor
ReadAt_MovesCursor(len, off) ==
    \E o \in {ReadAtOutcome(len, off)} :
        /\ writingFinished' = o.writingFinished
        /\ writeFile' = o.writeFile
        /\ readFile' = o.readFile
        /\ tempFile' = o.tempFile
        /\ offset' = offset + o.n
        /\ ret' = Result("ReadAt", len, off, o.n, o.data, o.err)
        /\ UNCHANGED <<maxInMemorySize, readingFinished, size, encrypt,
                       encryptionKey, buff, useFile, filename, written, out>>

\* Buffer.ReadAt(data, off): the call
ReadAt(len, off) ==
    \E o \in {ReadAtOutcome(len, off)} :
        /\ writingFinished' = o.writingFinished
        /\ writeFile' = o.writeFile
        /\ readFile' = o.readFile
        /\ tempFile' = o.tempFile
        /\ ret' = Result("ReadAt", len, off, o.n, o.data, o.err)
        /\ UNCHANGED <<maxInMemorySize, readingFinished, size, offset, encrypt,
                       encryptionKey, buff, useFile, filename, written, out>>

\* Buffer.Next(n)
Next(n) ==
    /\ LET r == BuffRead(buff, n)
       IN  /\ buff' = r.rest
           /\ ret' = Result("Next", n, 0, r.n, r.data,
                            IF r.err # "nil" THEN "panic" ELSE "nil")
    /\ UNCHANGED <<maxInMemorySize, writingFinished, readingFinished, size, offset,
                   encrypt, encryptionKey, writeFile, readFile, useFile, filename,
                   tempFile, written, out>>

\* Buffer.Len()
CallLen ==
    /\ ret' = Result("Len", 0, 0, size - offset, <<>>, "nil")
    /\ UNCHANGED <<maxInMemorySize, writingFinished, readingFinished, size, offset,
                   encrypt, encryptionKey, buff, writeFile, readFile, useFile,
                   filename, tempFile, written, out>>

\* Buffer.Reset()
Reset ==
    /\ buff' = <<>>
    /\ tempFile' = LET f == FinishWriting(writeFile, tempFile)
                   IN  IF filename # "" THEN [f EXCEPT !.exists = FALSE] ELSE f
    /\ writingFinished' = FALSE
    /\ readingFinished' = FALSE
    /\ writeFile' = NilHandle
    /\ readFile' = NilHandle
    /\ useFile' = FALSE
    /\ filename' = ""
    /\ ret' = Result("Reset", 0, 0, 0, <<>>, "nil")
    /\ written' = <<>>
    /\ out' = <<>>
    /\ UNCHANGED <<maxInMemorySize, size, offset, encrypt, encryptionKey>>

\* a drain that returns after the first chunk
WriteToDone_FirstChunk(rErr) == TRUE

\* WriteTo's loop exit: "if rErr == io.EOF { return n, nil }"
WriteToDone(rErr) == rErr = "EOF"

\* WriteTo's loop from the fields s, with n bytes forwarded so far as sink
\* after `reads` Reads; the sink accepts every chunk: [s, n, sink, reads, err]
RECURSIVE WriteToLoop(_, _, _, _)
WriteToLoop(s, n, sink, reads) ==
    The({ IF o.err \notin {"nil", "EOF"}
          THEN [s |-> o, n |-> n, sink |-> sink, reads |-> reads + 1, err |-> o.err]
          ELSE IF WriteToDone(o.err)
          THEN [s |-> o, n |-> n + o.n, sink |-> sink \o o.data,
                reads |-> reads + 1, err |-> "nil"]
          ELSE WriteToLoop(o, n + o.n, sink \o o.data, reads + 1)
          : o \in {ReadOn(s, ChunkSize)} })

\* Buffer.WriteTo(w) into a sink that accepts every chunk; ret.len is the
\* number of Reads it made, ret.data what the sink received
WriteTo ==
    \E r \in {WriteToLoop(ReadState, 0, <<>>, 0)} :
        /\ writingFinished' = r.s.writingFinished
        /\ readingFinished' = r.s.readingFinished
        /\ offset' = r.s.offset
        /\ buff' = r.s.buff
        /\ writeFile' = r.s.writeFile
        /\ readFile' = r.s.readFile
        /\ filename' = r.s.filename
        /\ tempFile' = r.s.tempFile
        /\ out' = out \o r.sink
        /\ ret' = Result("WriteTo", r.reads, 0, r.n, r.sink, r.err)
        /\ UNCHANGED <<maxInMemorySize, size, encrypt, encryptionKey, useFile, written>>

Step ==
    \/ \E key \in Keys : EnableEncryption(key)
    \/ \E k \in 0..MaxWrite : Write(Payload(k))
    \/ \E len \in 0..MaxRead : Read(len)
    \/ \E len \in 0..MaxRead, off \in -1..MaxSize : ReadAt(len, off)
    \/ \E n \in 0..MaxRead : Next(n)
    \/ CallLen
    \/ Reset

Spec == Init /\ [][Step]_vars

\* EnableEncryption called on the new buffer, before anything else
EnableEncryptionFirst(key) ==
    /\ size = 0 /\ ~encrypt /\ ~writingFinished
    /\ EnableEncryption(key)

\* A buffer that is written and then read, sequentially and at offsets:
\* no Next, no Reset, encryption enabled at the start or never.
StepStream ==
    \/ \E key \in Keys : EnableEncryptionFirst(key)
    \/ \E k \in 0..MaxWrite : Write(Payload(k))
    \/ \E len \in 0..MaxRead : Read(len)
    \/ \E len \in 0..MaxRead, off \in -1..MaxSize : ReadAt(len, off)
    \/ CallLen

SpecStream == Init /\ [][StepStream]_vars

\* The sequential life with WriteTo: as SpecStream, and the buffer may be
\* drained into a sink at any point
StepDrain ==
    \/ StepStream
    \/ WriteTo

SpecDrain == Init /\ [][StepDrain]_vars

\* Write's overflow when a collaborator fails: ioutil.TempFile ("temp file"),
\* or sio.EncryptWriter after the file was created ("encryption stream").
\* The bytes up to the bound are in the buffer and useFile is set by then;
\* writeFile and filename are not assigned, and the created file stays.
WriteOverflowFails(data, cause) ==
    /\ ~WriteRejected /\ ~useFile /\ ~FitsInMemory(data)
    /\ size + Len(data) <= MaxSize
    /\ cause = "encryption stream" => encrypt
    /\ buff' = buff \o Take(data, WriteBound)
    /\ useFile' = TRUE
    /\ size' = size + WriteBound
    /\ written' = written \o Take(data, WriteBound)
    /\ tempFile' = IF cause = "encryption stream" THEN TempFile ELSE tempFile
    /\ ret' = Result("Write", Len(data), 0, WriteBound, data, cause)
    /\ UNCHANGED <<maxInMemorySize, writingFinished, readingFinished, offset,
                   encrypt, encryptionKey, writeFile, readFile, filename, out>>

\* A Read whose readFromFile cannot open the existing file (os.Open fails, or
\* sio.DecryptReader cannot be created): readFromFile returns 0 bytes and the
\* error, and b.readFile stays nil
ReadOpenFails(len) ==
    /\ ~readingFinished /\ useFile /\ readFile = NilHandle
    /\ filename # "" /\ tempFile.exists
    /\ buff = <<>> \/ Len(buff) < len
    /\ \E o \in {ReadOn([ReadState EXCEPT !.tempFile.exists = FALSE], len)} :
        /\ writingFinished' = o.writingFinished
        /\ readingFinished' = o.readingFinished
        /\ offset' = o.offset
        /\ buff' = o.buff
        /\ writeFile' = o.writeFile
        /\ readFile' = o.readFile
        /\ filename' = o.filename
        /\ tempFile' = [o.tempFile EXCEPT !.exists = TRUE]
        /\ out' = out \o o.data
        /\ ret' = Result("Read", len, 0, o.n, o.data, o.err)
    /\ UNCHANGED <<maxInMemorySize, size, encrypt, encryptionKey, useFile, written>>

\* A buffer whose collaborators may fail when the file is created or opened
StepFail ==
    \/ \E key \in Keys : EnableEncryptionFirst(key)
    \/ \E k \in 0..MaxWrite : Write(Payload(k))
    \/ \E k \in 1..MaxWrite, cause \in {"temp file", "encryption stream"} :
           WriteOverflowFails(Payload(k), cause)
    \/ \E len \in 0..MaxRead : Read(len)
    \/ \E len \in 0..MaxRead : ReadOpenFails(len)
    \/ Reset

SpecFail == Init /\ [][StepFail]_vars

\* A buffer that is written and then read at offsets only.
StepReadAt ==
    \/ \E key \in Keys : EnableEncryptionFirst(key)
    \/ \E k \in 0..MaxWrite : Write(Payload(k))
    \/ \E len \in 0..MaxRead, off \in -1..MaxSize : ReadAt(len, off)

SpecReadAt == Init /\ [][StepReadAt]_vars

\* ------------------------------------------------------------------ claims
IsPrefix(s, t) == Len(s) <= Len(t) /\ s = SubSeq(t, 1, Len(s))

\* C1 (round trip): in a run of writes followed by reads, the bytes the Read
\* calls have returned are always the leading bytes of what was written, no
\* Read fails, and once a Read has returned end-of-data they are exactly the
\* written bytes -- for every threshold (0 included), every chunking of the
\* writes and every chunk size of the reads.
C1_RoundTrip ==
    /\ IsPrefix(out, written)
    /\ ret.op = "Read" => ret.err \in {"nil", "EOF"}
    /\ (ret.op = "Read" /\ ret.err = "EOF") => out = written

C1_Witness ==
    /\ ret.op = "Read" /\ ret.err = "EOF"
    /\ useFile /\ maxInMemorySize >= 1
    /\ Len(written) > maxInMemorySize
    /\ out = written

\* C2 (threshold boundary): while only Write has been called on a new buffer
\* of threshold t and k bytes were written, the memory tier holds min(k, t)
\* bytes; for k <= t there is no file and no file name; for k > t the file
\* exists, is named, and holds exactly the k - t bytes after the first t.
C2_ThresholdBoundary ==
    (~writingFinished /\ ~encrypt) =>
        /\ size = Len(written)
        /\ buff = Take(written, maxInMemorySize)
        /\ Len(buff) = Min(size, maxInMemorySize)
        /\ size <= maxInMemorySize =>
               ~useFile /\ filename = "" /\ ~tempFile.exists /\ writeFile = NilHandle
        /\ size > maxInMemorySize =>
               /\ useFile /\ filename # "" /\ tempFile.exists
               /\ tempFile.data = Drop(written, maxInMemorySize)
               /\ Len(tempFile.data) = size - maxInMemorySize

C2_Witness ==
    /\ ret.op = "Write" /\ ~writingFinished /\ ~encrypt
    /\ size = maxInMemorySize + 1
    /\ maxInMemorySize >= 1
    /\ Len(tempFile.data) = 1

\* C3 (length accounting): in a run of writes followed by reads, Len() is the
\* number of bytes written minus the number of bytes the Read calls returned
\* (so it is the number written before the first read), a Len() call returns
\* that number, and Len() is 0 once a Read has returned end-of-data.
C3_LengthAccounting ==
    /\ BufferLen = Len(written) - Len(out)
    /\ ret.op = "Len" => ret.n = Len(written) - Len(out)
    /\ (out = <<>> /\ ret.op = "Len") => ret.n = Len(written)
    /\ (ret.op = "Read" /\ ret.err = "EOF") => BufferLen = 0

C3_Witness ==
    /\ ret.op = "Len"
    /\ Len(out) >= 1 /\ Len(written) > Len(out)
    /\ useFile
    /\ ret.n = Len(written) - Len(out)

\* C5 (cross-tier stitching): on a buffer that was written and then only read
\* with ReadAt, a ReadAt(off, n) with off >= 0, n >= 1 and off + n within the
\* written bytes S returns n bytes, S[off:off+n], and no error -- inside the
\* memory tier, inside the file, and across the boundary.
C5_CrossTierStitching ==
    (ret.op = "ReadAt" /\ ret.off >= 0 /\ ret.len >= 1
        /\ ret.off + ret.len <= Len(written)) =>
        /\ ret.n = ret.len
        /\ ret.data = SubSeq(written, ret.off + 1, ret.off + ret.len)
        /\ ret.err = "nil"

C5_Witness ==
    /\ ret.op = "ReadAt"
    /\ ret.off >= 0 /\ ret.off < maxInMemorySize
    /\ ret.off + ret.len > maxInMemorySize
    /\ ret.off + ret.len <= Len(written)
    /\ ret.n = ret.len /\ ret.err = "nil"

\* C9 (short random-access read): on a buffer that was written and then only
\* read with ReadAt, a ReadAt(off, n) with 0 <= off < size that asks for more
\* than is left returns the size - off bytes S[off:] together with io.EOF;
\* one that asks for no more than is left returns n bytes without io.EOF.
C9_ShortReadAt ==
    (ret.op = "ReadAt" /\ ret.off >= 0 /\ ret.off < size /\ ret.len >= 1) =>
        IF ret.off + ret.len > size
        THEN /\ ret.n = size - ret.off
             /\ ret.data = Drop(written, ret.off)
             /\ ret.err = "EOF"
        ELSE /\ ret.n = ret.len
             /\ ret.err = "nil"

C9_Witness ==
    /\ ret.op = "ReadAt"
    /\ maxInMemorySize >= 1 /\ ret.off >= maxInMemorySize
    /\ ret.off < size
    /\ ret.off + ret.len > size
    /\ ret.n = size - ret.off /\ ret.n >= 1 /\ ret.err = "EOF"

\* C4 (write-after-read rejection): a sequential Read that reads leaves the
\* write phase closed; while it is closed a Write fails with
\* ErrBufferFinished, accepts 0 bytes and changes neither size, the memory
\* tier nor the file, unread bytes or not; and only Reset opens it again.
C4_WriteAfterRead ==
    [][ /\ ret'.op = "Read" => writingFinished'
        /\ (writingFinished /\ ret'.op # "Reset") => writingFinished'
        /\ (writingFinished /\ ret'.op = "Write") =>
               /\ ret'.err = "ErrBufferFinished"
               /\ ret'.n = 0
               /\ UNCHANGED <<size, offset, buff, writeFile, readFile, useFile,
                              filename, tempFile, written, out,
                              writingFinished, readingFinished>>
      ]_vars

C4_Witness ==
    /\ ret.op = "Write" /\ ret.err = "ErrBufferFinished" /\ ret.len >= 1
    /\ out # <<>> /\ Len(out) < Len(written)
    /\ ~readingFinished /\ BufferLen > 0

\* C6 (random-access repeatability), as claimed: a ReadAt call has just
\* returned; whatever Read, Next or ReadAt call comes next, the same ReadAt
\* call made after it returns the same bytes and the same status.
C6_Repeatable ==
    [][ (ret.op = "ReadAt" /\ ret'.op \in {"Read", "Next", "ReadAt"}) =>
            \E first \in {ret} :
                \E again \in {ReadAtOutcome(first.len, first.off)'} :
                    again.data = first.data /\ again.err = first.err
      ]_vars

\* C7 (re-reading drained memory), as claimed: in a run of writes followed by
\* Read and ReadAt calls, a ReadAt of a range inside the first
\* min(size, threshold) bytes returns those bytes as they were written,
\* however much of the memory tier the Read calls have drained.
C7_ReReadDrained ==
    (ret.op = "ReadAt" /\ ret.off >= 0 /\ ret.len >= 1
        /\ ret.off + ret.len <= Min(Len(written), maxInMemorySize)) =>
        ret.data = SubSeq(written, ret.off + 1, ret.off + ret.len)

\* C8, as claimed: the Read calls of a run return the same bytes as in the
\* run without its ReadAt calls. So a ReadAt call changes nothing that
\* decides what the later Write and Read calls do: the cursor, the
\* exhaustion flag, the bytes the next Read returns, and whether the next
\* Write is accepted (accepted bytes are what the Read calls return).
C8_ReadAtInvisible ==
    [][ ret'.op = "ReadAt" =>
            /\ UNCHANGED <<offset, readingFinished, size>>
            /\ WriteRejected' = WriteRejected
            /\ \/ UNCHANGED <<bufferVars, tempFile>>
               \/ \A len \in 0..MaxRead :
                      \E now \in {ReadOutcome(len)}, then \in {ReadOutcome(len)'} :
                          now.data = then.data
      ]_vars

\* C8 (amended): a ReadAt call leaves offset, readingFinished, size (hence
\* Len()), the unread memory bytes, useFile and the file name unchanged, and
\* the next sequential Read returns the same bytes with it as without it.
C8_ReadAtFrame ==
    [][ ret'.op = "ReadAt" =>
            /\ UNCHANGED <<offset, readingFinished, size, buff, useFile, filename>>
            /\ BufferLen' = BufferLen
            /\ \/ UNCHANGED <<bufferVars, tempFile>>
               \/ \A len \in 0..MaxRead :
                      \E now \in {ReadOutcome(len)}, then \in {ReadOutcome(len)'} :
                          now.data = then.data /\ now.n = then.n
      ]_vars

C8_Witness ==
    /\ ret.op = "ReadAt" /\ ret.n >= 1
    /\ readFile # NilHandle
    /\ out # <<>> /\ ~readingFinished
    /\ BufferLen > 0

\* C10 (ReadAt argument checks, in order): a negative offset returns 0 bytes
\* and the invalid-offset error, also for length 0, and changes no field of
\* the buffer; otherwise length 0 returns 0 bytes and no error, also at or
\* past the end; otherwise an offset at or past size returns 0 bytes and EOF.
C10_ReadAtChecks ==
    [][ ret'.op = "ReadAt" =>
            /\ ret'.off < 0 =>
                   /\ ret'.n = 0 /\ ret'.err = "negative offset"
                   /\ UNCHANGED <<bufferVars, tempFile, written, out>>
            /\ (ret'.off >= 0 /\ ret'.len = 0) =>
                   ret'.n = 0 /\ ret'.err = "nil"
            /\ (ret'.off >= 0 /\ ret'.len > 0 /\ ret'.off >= size) =>
                   ret'.n = 0 /\ ret'.err = "EOF"
      ]_vars

C10_Witness ==
    /\ ret.op = "ReadAt" /\ ret.off < 0 /\ ret.len = 0
    /\ ret.n = 0 /\ ret.err = "negative offset"
    /\ size > 0

\* C11 (ReadAt closes the write phase): after any ReadAt with a non-negative
\* offset, whatever its length and result (a zero-length request and a
\* request at or past the end of the data included), writingFinished is true
\* and a Write that follows is rejected with ErrBufferFinished.
C11_ReadAtClosesWrites ==
    [][ /\ (ret'.op = "ReadAt" /\ ret'.off >= 0) => writingFinished'
        /\ (ret.op = "ReadAt" /\ ret.off >= 0 /\ ret'.op = "Write") =>
               ret'.err = "ErrBufferFinished" /\ ret'.n = 0 /\ size' = size
      ]_vars

\* C12 (Next closes the write phase): after any call of Next(n),
\* writingFinished is true and a Write that follows returns ErrBufferFinished
\* and accepts no bytes.
C12_NextClosesWrites ==
    [][ /\ ret'.op = "Next" => writingFinished'
        /\ (ret.op = "Next" /\ ret'.op = "Write") =>
               ret'.err = "ErrBufferFinished" /\ ret'.n = 0 /\ size' = size
      ]_vars

\* C13 (Next reads the memory tier only and never fails): in every reachable
\* state Next(n) returns the first min(n, unread memory bytes) bytes of the
\* memory tier in order, touches neither the file nor a handle, and raises no
\* error or panic, an empty memory tier included.
C13_NextNeverFails ==
    [][ ret'.op = "Next" =>
            /\ ret'.err = "nil"
            /\ ret'.n = Min(ret'.len, Len(buff))
            /\ ret'.data = Take(buff, ret'.len)
            /\ buff' = Drop(buff, ret'.len)
            /\ UNCHANGED <<readFile, writeFile, filename, tempFile>>
      ]_vars

\* C14 (Len counts every sequential drain): a Next(n) that returns m bytes
\* decreases Len() by m, as a Read that returns m bytes does.
C14_LenCountsNext ==
    [][ ret'.op \in {"Next", "Read"} => BufferLen' = BufferLen - ret'.n ]_vars

\* C15 (Reset returns the buffer to the fresh state): right after Reset, in
\* whatever state it was called, Len() is 0, the memory tier is empty, no file
\* is in use and writes are accepted, with the threshold unchanged.
C15_ResetIsFresh ==
    ret.op = "Reset" =>
        /\ BufferLen = 0
        /\ buff = <<>>
        /\ ~useFile /\ filename = "" /\ writeFile = NilHandle /\ readFile = NilHandle
        /\ ~writingFinished /\ ~readingFinished

\* C16 (Exhausted is absorbing): a sequential Read that returns fewer bytes
\* than requested sets readingFinished; from then on every Read, of any
\* length, returns 0 bytes and EOF and changes no state of the buffer or of
\* the file, and no operation but Reset clears readingFinished.
C16_ExhaustedAbsorbing ==
    [][ /\ (ret'.op = "Read" /\ ret'.n < ret'.len) => readingFinished'
        /\ (readingFinished /\ ret'.op = "Read") =>
               /\ ret'.n = 0 /\ ret'.data = <<>> /\ ret'.err = "EOF"
               /\ UNCHANGED <<bufferVars, tempFile, written, out>>
        /\ (readingFinished /\ ret'.op # "Reset") => readingFinished'
      ]_vars

C16_Witness ==
    /\ readingFinished
    /\ ret.op = "Read" /\ ret.len = 0 /\ ret.n = 0 /\ ret.err = "EOF"
    /\ out # <<>> /\ useFile

\* C17 (backing-file cleanup): when no file operation fails, a Read that
\* finishes the reading of a file-backed buffer, and every Reset, leave the
\* read handle closed, the file deleted and the filename empty; so while
\* readingFinished holds and right after Reset no backing file exists and no
\* handle is open, also when the read handle was opened by ReadAt.
C17_FileCleanup ==
    (readingFinished \/ ret.op = "Reset") =>
        /\ readFile = NilHandle /\ writeFile = NilHandle
        /\ filename = ""
        /\ ~tempFile.exists

C17_Witness ==
    /\ readingFinished /\ useFile
    /\ ret.op = "Read" /\ ret.n >= 1 /\ ret.n < ret.len
    /\ tempFile.data # <<>> /\ ~tempFile.exists
    /\ readFile = NilHandle /\ filename = ""

\* The same buffer without encryption: the read handle is the *os.File
\* itself, at the same position
PlainHandle(h) == IF h = NilHandle THEN NilHandle ELSE [OsFile EXCEPT !.pos = h.pos]

\* The same buffer without encryption: the file holds the written bytes
PlainFile(f) == [f EXCEPT !.data = DecryptSeq(f.data, f.key), !.key = 0]

\* What ReadAt(data, off) returns: [n, data, err]
ReadAtReturns(len, off) ==
    The({ [n |-> o.n, data |-> o.data, err |-> o.err]
          : o \in {ReadAtOutcome(len, off)} })

\* What ReadAt(data, off) returns on the same buffer without encryption
PlainReadAtReturns(len, off) ==
    IF ReadAtCheck(len, off) # "read"
    THEN [n |-> 0, data |-> <<>>, err |-> ReadAtCheck(len, off)]
    ELSE The({ [n |-> o.n, data |-> o.data, err |-> o.err]
               : o \in {ReadAtTiers(PlainHandle(readFile),
                                    PlainFile(IF writingFinished THEN tempFile
                                              ELSE FinishWriting(writeFile, tempFile)),
                                    IF readFile # NilHandle THEN PlainHandle(readFile)
                                    ELSE OsFile,
                                    len, off)} })

\* C18 (encryption transparency): in a run where EnableEncryption was called
\* once before the first write, every ReadAt returns the same count, bytes
\* and end-of-data or error status as the buffer without encryption returns
\* after the same calls; only the bytes in the backing file differ.
C18_EncryptionTransparent ==
    encrypt =>
        \A len \in 0..MaxRead, off \in 0..MaxSize :
            ReadAtReturns(len, off) = PlainReadAtReturns(len, off)

\* C19 (encryption key immutability): once a key has been generated, no
\* operation, a further EnableEncryption included, changes the key or the
\* encryption setting.
C19_KeyImmutable ==
    [][ encrypt => encrypt' /\ encryptionKey' = encryptionKey ]_vars

\* C20 (consumed never exceeds written): offset <= size in every reachable
\* state, so Len() is never negative, and neither counter ever decreases.
C20_ConsumedWithinWritten ==
    [][ /\ offset' <= size' /\ BufferLen' >= 0
        /\ size' >= size /\ offset' >= offset
      ]_vars

C20_Witness ==
    /\ ret.op = "Read" /\ ret.n >= 1
    /\ offset = size /\ offset >= 2
    /\ useFile /\ readingFinished

\* The plaintext bytes that have been written to the backing file, those a
\* still open encrypting writer holds included
FileBytes == PlainFile(FinishWriting(writeFile, tempFile)).data

\* C21 (Write tier split): with the write phase open, a Write that does not
\* fit while no file is in use puts exactly maxInMemorySize - (memory bytes)
\* leading bytes into the memory tier, creates the file and writes the rest,
\* at least one byte, to it in order; once useFile is true a Write goes
\* entirely to the file and leaves the memory tier unchanged; every
\* successful Write returns n = len(data) and adds n to size.
C21_WriteTierSplit ==
    [][ (ret'.op = "Write" /\ ~writingFinished) =>
          \E before \in {FileBytes} : \E data \in {ret'.data} :
            /\ ret'.err = "nil" /\ ret'.n = Len(data) /\ size' = size + Len(data)
            /\ (~useFile /\ Len(buff) + Len(data) <= maxInMemorySize) =>
                   /\ buff' = buff \o data
                   /\ ~useFile' /\ FileBytes' = before
            /\ (~useFile /\ Len(buff) + Len(data) > maxInMemorySize) =>
                   /\ buff' = buff \o Take(data, maxInMemorySize - Len(buff))
                   /\ Len(buff') = maxInMemorySize
                   /\ useFile' /\ tempFile'.exists /\ filename' # ""
                   /\ writeFile' # NilHandle
                   /\ FileBytes' = Drop(data, maxInMemorySize - Len(buff))
                   /\ Len(FileBytes') >= 1
            /\ useFile =>
                   /\ buff' = buff /\ useFile'
                   /\ FileBytes' = before \o data
      ]_vars

C21_Witness ==
    /\ ret.op = "Write" /\ ret.err = "nil" /\ ret.n = 2
    /\ ~writingFinished /\ useFile
    /\ maxInMemorySize >= 1 /\ Len(buff) = maxInMemorySize
    /\ Len(FileBytes) = 1
    /\ size = maxInMemorySize + 1

\* C22 (useFile tracks the overflow): useFile is true exactly when the bytes
\* written since construction or the last Reset have exceeded
\* maxInMemorySize, whatever Next, ReadAt, Read and Reset calls are
\* interleaved with the writes.
C22_UsesFileIffExceeded ==
    useFile <=> Len(written) > maxInMemorySize

\* C23 (one purpose at a time): the write handle and a read handle of the
\* file are never open together.
C23_NeverBothOpen ==
    ~(writeFile # NilHandle /\ readFile # NilHandle)

C23_Witness ==
    /\ readFile # NilHandle /\ writeFile = NilHandle
    /\ encrypt /\ tempFile.key # 0 /\ tempFile.data # <<>>
    /\ ret.op = "ReadAt" /\ ret.n >= 1

\* C24 (independent read handles): a ReadAt issued after a sequential Read
\* has opened the file, and before exhaustion, gets a handle that supports
\* positional reads and does not fail, with encryption as without; and
\* ReadAt never closes the read handle, deletes the file or clears filename.
C24_ReadAtAfterReadWorks ==
    [][ (ret'.op = "ReadAt" /\ ret'.off >= 0) =>
            /\ (readFile # NilHandle /\ ~readingFinished) =>
                   ret'.err \in {"nil", "EOF"}
            /\ readFile # NilHandle => readFile' = readFile
            /\ filename' = filename
            /\ tempFile'.exists = tempFile.exists
      ]_vars

\* C27 (bounded memory): the memory tier never holds more than
\* maxInMemorySize unread bytes, whatever Write, Read, Next, ReadAt and Reset
\* calls are interleaved, writes after a Next that drained part of the
\* memory tier included.
C27_BoundedMemory ==
    Len(buff) <= maxInMemorySize

C27_Witness ==
    /\ ret.op = "Write" /\ ret.n >= 1 /\ ret.err = "nil"
    /\ maxInMemorySize >= 1 /\ Len(buff) = maxInMemorySize
    /\ buff[1] # written[1]
    /\ useFile

\* C26 (WriteTo drains to exhaustion and terminates): on a buffer holding k
\* unread bytes, written with Write and read with Read only, WriteTo makes
\* finitely many Reads, forwards exactly the k unread bytes in order, returns
\* k and no error, and leaves the buffer exhausted with Len() = 0 and the
\* backing file deleted.
C26_WriteToDrains ==
    [][ ret'.op = "WriteTo" =>
          \E unread \in {Drop(written, Len(out))} :
            /\ Len(unread) = BufferLen
            /\ ret'.err = "nil"
            /\ ret'.data = unread /\ ret'.n = Len(unread)
            /\ ret'.len <= (Len(unread) \div ChunkSize) + 2
            /\ readingFinished' /\ BufferLen' = 0 /\ out' = written
            /\ ~tempFile'.exists /\ readFile' = NilHandle /\ filename' = ""
      ]_vars

C26_Witness ==
    /\ ret.op = "WriteTo" /\ ret.n > ChunkSize /\ ret.len >= 3
    /\ useFile /\ encrypt
    /\ out = written /\ readingFinished

\* C25 (cleanup on error paths): when creating the temp file, initialising
\* the encrypting stream, opening the file for reading or initialising the
\* decrypting stream fails, then after a Read that finishes the reading, and
\* after the next Reset, no handle is open and no created temp file is left.
C25_CleanupAfterFailure ==
    (ret.op = "Reset" \/ readingFinished) =>
        /\ ~tempFile.exists
        /\ readFile = NilHandle /\ writeFile = NilHandle

\* C28 (consistent after a failed overflow): in every reachable state, after
\* a Write that failed to create the temp file or the encrypting stream
\* included, useFile with the write phase open implies an open write handle
\* and a non-empty filename, so that no Write reaches the file-write step
\* without a handle.
C28_ConsistentAfterFailedOverflow ==
    /\ (useFile /\ ~writingFinished) => (writeFile # NilHandle /\ filename # "")
    /\ ret.op = "Write" => ret.err # "panic"

\* Sequential Reads, each returning exactly the bytes requested (none was
\* short: readingFinished is false), have together returned every byte
\* written to a buffer that uses the file
FullyRead ==
    /\ useFile /\ writingFinished /\ ~readingFinished
    /\ out = written /\ offset = size

\* C29 (exhaustion is detected only by a short read): when Reads that each
\* returned exactly the bytes requested have consumed every written byte of a
\* file-backed buffer, Len() is 0 but readingFinished is still false and the
\* file still exists with its read handle open; one further Read returns 0
\* bytes and EOF and deletes the file, and nothing but that Read or a Reset
\* deletes it.
C29_ExhaustionByShortRead ==
    [][ /\ (/\ ret'.op = "Read" /\ ret'.n = ret'.len /\ ret'.n >= 1
            /\ useFile /\ ~readingFinished
            /\ out' = written /\ offset' = size) =>
               /\ ~readingFinished'
               /\ tempFile'.exists /\ readFile' # NilHandle /\ filename' # ""
        /\ FullyRead =>
            /\ BufferLen = 0
            /\ tempFile.exists /\ readFile # NilHandle /\ filename # ""
            /\ (ret'.op = "Read" /\ ret'.len > 0) =>
                   /\ ret'.n = 0 /\ ret'.err = "EOF"
                   /\ readingFinished'
                   /\ ~tempFile'.exists /\ readFile' = NilHandle /\ filename' = ""
            /\ ~tempFile'.exists => ret'.op \in {"Read", "Reset"}
      ]_vars

C29_Witness ==
    /\ FullyRead
    /\ ret.op = "Read" /\ ret.n = ret.len /\ ret.n >= 1
    /\ Len(written) > maxInMemorySize /\ maxInMemorySize >= 1
    /\ BufferLen = 0 /\ tempFile.exists

====
